---- MODULE Spec2Model ----
(***************************************************************************)
(* The training data pipeline of ultravox/training/train.py:               *)
(*   prepare_dataset builds Range(UltravoxDataproc(InterleaveDataset)),     *)
(*   train() builds it on every rank and swaps in EmptyDataset stand-ins    *)
(*   on non-master ranks, main() runs evaluate after train on the master.   *)
(* The dataset classes (ultravox/data/datasets.py) are modelled from the    *)
(* specification's sections 3, 4.1, 4.2 and 4.4.                            *)
(***************************************************************************)
EXTENDS Integers, Sequences, FiniteSets, TLC

\* ---- bounds of the model ------------------------------------------------
\* longest source dataset
MaxLen == 3
\* largest multiplier (weights are modelled as positive integers)
MaxMult == 2
\* largest sample cap (num_samples)
MaxCap == 3
\* samples a consumer requests from one prepared dataset, over all iterations
MaxPulls == 7
\* iterations (epochs) a consumer starts on one prepared dataset
MaxIters == 2
\* largest WORLD_SIZE
MaxWorld == 2

\* ---- values -------------------------------------------------------------
Names == {"a", "b"}

LAST_EXHAUSTED == "LAST_EXHAUSTED"

FIRST_EXHAUSTED == "FIRST_EXHAUSTED"

NEVER_STOP == "NEVER_STOP"

StopStrategy == {LAST_EXHAUSTED, FIRST_EXHAUSTED, NEVER_STOP}

\* Python's None, for Optional[int] fields
None == -1

\* TrainConfig.shuffle_seed's default
DefaultShuffleSeed == 42

\* TrainConfig.val_num_samples's default
DefaultValNumSamples == 100

\* the value of a dataset variable before it is assigned
NoDataset == [kind |-> "NoDataset"]

\* args.interleave_datasets when the attribute does not exist on the config
Missing == [kind |-> "Missing"]

StopIteration == [kind |-> "StopIteration"]

Min(a, b) == IF a <= b THEN a ELSE b

RECURSIVE SumTo(_, _)
SumTo(f, n) == IF n = 0 THEN 0 ELSE f[n] + SumTo(f, n - 1)

\* the two independent constructions of the pipeline that are compared
Runs == {"r1", "r2"}

VARIABLES
    dsLen,      \* the data: name of a source dataset -> its number of samples
    args,       \* the TrainConfig the run was started with
    ppc,        \* per run: where the call of prepare_dataset stands
    ds,         \* per run: the dataset prepare_dataset returned (with the engine's state)
    it,         \* per run: the iteration in progress over ds
    out,        \* per run: the samples the Range has yielded in this iteration
    innerOut,   \* per run: the samples the Dataproc has yielded in this iteration
    iterNo,     \* per run: iterations started
    pulls,      \* per run: samples requested so far
    topo,       \* the launch: nodes and processes per node
    pc,         \* per process: position in main()/train()
    err,        \* per process: the exception that ended it, if any
    train_dataset,  \* per process: train()'s local train_dataset
    val_datasets,   \* per process: train()'s local val_datasets
    trainer,    \* per process: the datasets handed to Seq2SeqTrainer
    consumed,   \* per process: the samples trainer.train() drew
    saved,      \* per process: pipeline.save_pretrained has completed
    torch,      \* what torch reports: cuda and mps availability
    ctor,       \* the arguments TrainConfig was constructed with
    cpc         \* where the construction of the TrainConfig stands

pipeVars == <<ppc, ds, it, out, innerOut, iterNo, pulls>>

runVars == <<topo, pc, err, train_dataset, val_datasets, trainer, consumed, saved>>

cfgVars == <<torch, ctor, cpc>>

vars == <<dsLen, args, pipeVars, runVars, cfgVars>>

\* ---- ultravox.data.datasets, from the specification ---------------------

\* a Source Dataset: constructed from its name and the Dataset Arguments
create_dataset(name, data_args) ==
    [kind |-> "Source", name |-> name, len |-> dsLen[name],
     shuffle_seed |-> data_args.shuffle_seed, split |-> data_args.split]

\* the engine's generator: a linear congruential step
NextRandom(s) == (5 * s + 3) % 16

RECURSIVE PickFrom(_, _, _)
PickFrom(w, u, i) ==
    IF i >= Len(w) \/ u < w[i] THEN i ELSE PickFrom(w, u - w[i], i + 1)

\* weighted selection: index i is chosen with frequency w[i] / sum(w)
WeightedChoice(r, w) == PickFrom(w, (r * SumTo(w, Len(w))) \div 16, 1)

\* the seed of the engine, from the Dataset Arguments its sources were built with
EngineSeed(data_sets) == data_sets[1].shuffle_seed % 16

InterleaveDataset(data_sets, stop_strategy, multipliers) ==
    [kind |-> "Interleave", datasets |-> data_sets, stop_strategy |-> stop_strategy,
     multipliers |-> multipliers, rng |-> EngineSeed(data_sets),
     exhausted |-> [i \in 1..Len(data_sets) |-> FALSE]]

UltravoxDataproc(dataset) == [kind |-> "Dataproc", dataset |-> dataset]

Range(dataset, num_samples) ==
    [kind |-> "Range", dataset |-> dataset, num_samples |-> num_samples]

EmptyDataset(length) == [kind |-> "Empty", length |-> length]

\* EmptyDataset(): the length defaults to zero
EmptyDatasetDefault == EmptyDataset(0)

RECURSIVE DatasetLen(_)
DatasetLen(d) ==
    CASE d.kind = "Source" -> d.len
      [] d.kind = "Interleave" ->
            SumTo([i \in 1..Len(d.datasets) |-> d.datasets[i].len], Len(d.datasets))
      [] d.kind = "Dataproc" -> DatasetLen(d.dataset)
      [] d.kind = "Range" ->
            IF d.num_samples = None THEN DatasetLen(d.dataset)
            ELSE Min(d.num_samples, DatasetLen(d.dataset))
      [] d.kind = "Empty" -> d.length

VoiceSample(e, i, k) == [kind |-> "VoiceSample", source |-> i, name |-> e.datasets[i].name, idx |-> k]

\* whether the stream ends when a source has just been found exhausted
StopNow(stop_strategy, exhausted) ==
    \/ stop_strategy = FIRST_EXHAUSTED
    \/ stop_strategy = LAST_EXHAUSTED /\ \A i \in DOMAIN exhausted : exhausted[i]

\* one pull on the engine: e the engine, iters the live iterators' positions
InterleaveNext(e, iters) ==
    LET r == NextRandom(e.rng)
        i == WeightedChoice(r, e.multipliers)
        e1 == [e EXCEPT !.rng = r]
    IN  IF iters[i] < e.datasets[i].len
        THEN [e |-> e1, iters |-> [iters EXCEPT ![i] = @ + 1],
              res |-> VoiceSample(e, i, iters[i])]
        ELSE LET ex == [e.exhausted EXCEPT ![i] = TRUE]
                 e2 == [e1 EXCEPT !.exhausted = ex]
             IN  IF StopNow(e.stop_strategy, ex)
                 THEN [e |-> e2, iters |-> iters, res |-> StopIteration]
                 ELSE [e |-> e2, iters |-> [iters EXCEPT ![i] = 1],
                       res |-> VoiceSample(e, i, 0)]

\* the Dataproc Adapter: one processed sample per raw sample
Process(sample) == [kind |-> "Tensors", of |-> sample]

DataprocNext(d, iters) ==
    LET n == InterleaveNext(d.dataset, iters)
    IN  [d |-> [d EXCEPT !.dataset = n.e], iters |-> n.iters,
         res |-> IF n.res = StopIteration THEN StopIteration ELSE Process(n.res)]

\* a fresh iteration over a Range: live iterators at the start, nothing counted
NewIteration(d) ==
    [iters |-> [i \in 1..Len(d.dataset.dataset.datasets) |-> 0],
     n |-> 0, innerDone |-> FALSE, rangeDone |-> FALSE]

NoIteration == [iters |-> <<>>, n |-> 0, innerDone |-> FALSE, rangeDone |-> TRUE]

\* one pull on the Range Limiter
RangeNext(d, i) ==
    IF i.rangeDone \/ (d.num_samples # None /\ i.n >= d.num_samples)
    THEN [d |-> d, it |-> [i EXCEPT !.rangeDone = TRUE], res |-> StopIteration,
          inner |-> StopIteration]
    ELSE LET n == DataprocNext(d.dataset, i.iters)
         IN  IF n.res = StopIteration
             THEN [d |-> [d EXCEPT !.dataset = n.d],
                   it |-> [i EXCEPT !.innerDone = TRUE, !.rangeDone = TRUE],
                   res |-> StopIteration, inner |-> StopIteration]
             ELSE [d |-> [d EXCEPT !.dataset = n.d],
                   it |-> [i EXCEPT !.iters = n.iters, !.n = @ + 1],
                   res |-> n.res, inner |-> n.res]

\* iterating an EmptyDataset
EmptyNext(d) == StopIteration

\* ---- ultravox/training/train.py -----------------------------------------

IsInterleaveDataConfig(x) == x.kind = "InterleaveDataConfig"

\* prepare_dataset, lines 53-67: the sources
DataSets(interleave_dataset, data_args) ==
    IF IsInterleaveDataConfig(interleave_dataset)
    THEN [i \in 1..Len(interleave_dataset.datasets_with_multiplier) |->
            create_dataset(interleave_dataset.datasets_with_multiplier[i].dataset, data_args)]
    ELSE [i \in 1..Len(interleave_dataset.names) |->
            create_dataset(interleave_dataset.names[i], data_args)]

\* prepare_dataset, lines 58-67: the weights
Multipliers(interleave_dataset) ==
    IF IsInterleaveDataConfig(interleave_dataset)
    THEN [i \in 1..Len(interleave_dataset.datasets_with_multiplier) |->
            interleave_dataset.datasets_with_multiplier[i].multiplier]
    ELSE [i \in 1..Len(interleave_dataset.names) |-> 1]

\* a faulty variant: the configured strategy is dropped, the default is used
StopStrategyOfAlwaysLast(interleave_dataset) == LAST_EXHAUSTED

\* a faulty variant: every interleave stops at the first exhausted source
StopStrategyOfAlwaysFirst(interleave_dataset) == FIRST_EXHAUSTED

\* prepare_dataset, lines 61 and 66: the stop strategy
StopStrategyOf(interleave_dataset) ==
    IF IsInterleaveDataConfig(interleave_dataset)
    THEN interleave_dataset.stop_strategy
    ELSE LAST_EXHAUSTED

\* a faulty variant: the length check is made whatever max_steps is
UsingEpochsAlways(train_args) == TRUE

\* prepare_dataset, line 70
UsingEpochs(train_args) == train_args.max_steps = 0

\* prepare_dataset, lines 71-75: whether an assert fails
EpochLengthAssertFails(train_args, data_sets, enforce_ds_len_epoch) ==
    /\ UsingEpochs(train_args)
    /\ enforce_ds_len_epoch
    /\ \E i \in 1..Len(data_sets) : ~(data_sets[i].len > 1)

\* a faulty variant: the sample cap is not handed to the Range
StagesUncapped(data_sets, stop_strategy, multipliers, num_samples) ==
    Range(UltravoxDataproc(InterleaveDataset(data_sets, stop_strategy, multipliers)),
          None)

\* prepare_dataset, lines 76-88: the three stages
Stages(data_sets, stop_strategy, multipliers, num_samples) ==
    Range(UltravoxDataproc(InterleaveDataset(data_sets, stop_strategy, multipliers)),
          num_samples)

prepare_dataset(train_args, interleave_dataset, data_args, num_samples, enforce_ds_len_epoch) ==
    LET data_sets == DataSets(interleave_dataset, data_args)
    IN  IF EpochLengthAssertFails(train_args, data_sets, enforce_ds_len_epoch)
        THEN [status |-> "AssertionError", ds |-> NoDataset]
        ELSE [status |-> "ok",
              ds |-> Stages(data_sets, StopStrategyOf(interleave_dataset),
                            Multipliers(interleave_dataset), num_samples)]

\* a faulty variant: the shuffle seed depends on how many pipelines exist already
TrainDataArgsAmbientSeed(a) ==
    [shuffle_seed |-> a.shuffle_seed + Cardinality({r \in Runs : ppc[r] # "call"}),
     split |-> "TRAIN"]

\* train, lines 231-239: the Dataset Arguments of the training set
TrainDataArgs(a) == [shuffle_seed |-> a.shuffle_seed, split |-> "TRAIN"]

\* train, lines 244-252: the Dataset Arguments of the validation sets
ValDataArgs(a) == [shuffle_seed |-> DefaultShuffleSeed, split |-> "VALIDATION"]

\* train, lines 225-242: the training dataset, built on every rank
PrepareTrainDataset(a) ==
    IF a.interleave_datasets = Missing
    THEN [status |-> "AttributeError", ds |-> NoDataset]
    ELSE prepare_dataset(a, a.interleave_datasets, TrainDataArgs(a), a.num_samples, TRUE)

\* main line 108 and train line 121: LOCAL_RANK of a process <<node, local rank>>
LocalRank(p) == p[2]

\* main line 109 and train line 122
IsMaster(p) == LocalRank(p) = 0

\* train, lines 220-224: the keys of val_sets, x and text_x for every x
ValKeys(a) ==
    {[name |-> a.val_sets[i], text |-> t] : i \in 1..Len(a.val_sets), t \in BOOLEAN}

\* train, lines 256-264: one validation dataset (enforce_ds_len_epoch left at its default)
PrepareValDataset(a, k) ==
    prepare_dataset(a, [kind |-> "list", names |-> <<k.name>>], ValDataArgs(a),
                    a.val_num_samples, FALSE)

\* a faulty variant: the stand-in is built without the training set's length
StandInTrainNoLength(td) == EmptyDatasetDefault

\* train, line 274: the stand-in for the training set on a non-master rank
StandInTrain(td) == EmptyDataset(DatasetLen(td))

\* train, line 275: the stand-ins for the validation sets on a non-master rank
StandInVal(a) == [k \in ValKeys(a) |-> EmptyDatasetDefault]

\* a faulty variant: evaluation is started on every rank
EvaluateAfterTrainAnyRank(a, p) == a.do_eval

\* main, line 113
EvaluateAfterTrain(a, p) == a.do_eval /\ IsMaster(p)

\* the samples a consumer gets from at most n requests on one iteration of a Range
RECURSIVE TakeFrom(_, _, _)
TakeFrom(d, i, n) ==
    IF n = 0 THEN <<>>
    ELSE LET x == RangeNext(d, i)
         IN  IF x.res = StopIteration THEN <<>>
             ELSE <<x.res>> \o TakeFrom(x.d, x.it, n - 1)

\* the samples the trainer's data loader draws from the dataset it was handed
Take(d, n) ==
    IF d.kind = "Empty"
    THEN IF EmptyNext(d) = StopIteration THEN <<>> ELSE <<EmptyNext(d)>>
    ELSE TakeFrom(d, NewIteration(d), n)

\* ---- the inputs ----------------------------------------------------------

SourceLists == {<<"a">>, <<"a", "b">>}

ListInputs == {[kind |-> "list", names |-> s] : s \in SourceLists}

WithMultipliers(s) ==
    {[i \in 1..Len(s) |-> [dataset |-> s[i], multiplier |-> m[i]]] :
        m \in [1..Len(s) -> 1..MaxMult]}

ConfigInputs ==
    {[kind |-> "InterleaveDataConfig", datasets_with_multiplier |-> dm, stop_strategy |-> st] :
        dm \in UNION {WithMultipliers(s) : s \in SourceLists}, st \in StopStrategy}

Caps == {None} \cup (0..MaxCap)

\* the processes of a launch: <<node, LOCAL_RANK>>
Procs(t) == (1..t.nnodes) \X (0..(t.nproc - 1))

\* the configurations the pipeline is explored with
PipeArgs ==
    [interleave_datasets : {Missing} \cup ListInputs \cup ConfigInputs,
     num_samples : Caps,
     max_steps : {0, 2},
     shuffle_seed : {DefaultShuffleSeed, 7},
     stop_strategy : {LAST_EXHAUSTED},
     val_sets : {<<"b">>},
     val_num_samples : {DefaultValNumSamples},
     do_train : {TRUE},
     do_eval : {TRUE}]

SingleProcess == [nnodes |-> 1, nproc |-> 1]

InitRunIdle ==
    /\ topo = SingleProcess
    /\ pc = [p \in Procs(SingleProcess) |-> "main"]
    /\ err = [p \in Procs(SingleProcess) |-> "none"]
    /\ train_dataset = [p \in Procs(SingleProcess) |-> NoDataset]
    /\ val_datasets = [p \in Procs(SingleProcess) |-> <<>>]
    /\ trainer = [p \in Procs(SingleProcess) |-> NoDataset]
    /\ consumed = [p \in Procs(SingleProcess) |-> <<>>]
    /\ saved = [p \in Procs(SingleProcess) |-> FALSE]

\* the configuration object exists already: nothing is under construction
InitConfigIdle ==
    /\ torch = [cuda |-> TRUE, mps |-> FALSE]
    /\ ctor = <<>>
    /\ cpc = "constructed"

InitPipeVars ==
    /\ ppc = [r \in Runs |-> "call"]
    /\ ds = [r \in Runs |-> NoDataset]
    /\ it = [r \in Runs |-> NoIteration]
    /\ out = [r \in Runs |-> <<>>]
    /\ innerOut = [r \in Runs |-> <<>>]
    /\ iterNo = [r \in Runs |-> 0]
    /\ pulls = [r \in Runs |-> 0]

Init ==
    /\ dsLen \in [Names -> 1..MaxLen]
    /\ args \in PipeArgs
    /\ InitPipeVars
    /\ InitConfigIdle
    /\ InitRunIdle

\* ---- the pipeline's operations -------------------------------------------

\* train() lines 225-242 on one rank: the call of prepare_dataset returns or raises
Prepare(r) ==
    /\ ppc[r] = "call"
    /\ LET res == PrepareTrainDataset(args)
       IN  /\ ppc' = [ppc EXCEPT ![r] = IF res.status = "ok" THEN "ready" ELSE res.status]
           /\ ds' = [ds EXCEPT ![r] = res.ds]
    /\ UNCHANGED <<cfgVars, dsLen, args, it, out, innerOut, iterNo, pulls, runVars>>

\* the consumer starts an iteration: iter(limited_ds)
StartIter(r) ==
    /\ ppc[r] = "ready"
    /\ iterNo[r] < MaxIters
    /\ iterNo[r] > 0 => it[r].rangeDone
    /\ iterNo' = [iterNo EXCEPT ![r] = @ + 1]
    /\ it' = [it EXCEPT ![r] = NewIteration(ds[r])]
    /\ out' = [out EXCEPT ![r] = <<>>]
    /\ innerOut' = [innerOut EXCEPT ![r] = <<>>]
    /\ UNCHANGED <<cfgVars, dsLen, args, ppc, ds, pulls, runVars>>

\* the consumer requests the next sample: next() on the Range's iterator
Pull(r) ==
    /\ ppc[r] = "ready"
    /\ iterNo[r] > 0
    /\ ~it[r].rangeDone
    /\ pulls[r] < MaxPulls
    /\ LET n == RangeNext(ds[r], it[r])
       IN  /\ ds' = [ds EXCEPT ![r] = n.d]
           /\ it' = [it EXCEPT ![r] = n.it]
           /\ out' = [out EXCEPT ![r] =
                        IF n.res = StopIteration THEN @ ELSE Append(@, n.res)]
           /\ innerOut' = [innerOut EXCEPT ![r] =
                        IF n.inner = StopIteration THEN @ ELSE Append(@, n.inner)]
    /\ pulls' = [pulls EXCEPT ![r] = @ + 1]
    /\ UNCHANGED <<cfgVars, dsLen, args, ppc, iterNo, runVars>>

Next ==
    \/ Prepare("r1")
    \/ StartIter("r1")
    \/ Pull("r1")

Spec == Init /\ [][Next]_vars

\* ---- the launch: main() and train() on every process --------------------

\* WORLD_SIZE = nodes * processes per node
WorldSize(t) == t.nnodes * t.nproc

Topologies ==
    {t \in [nnodes : 1..MaxWorld, nproc : 1..MaxWorld] : WorldSize(t) <= MaxWorld}

\* the configurations the launch is explored with
RunArgs ==
    [interleave_datasets :
        {Missing} \cup ListInputs \cup
        {c \in ConfigInputs :
            /\ c.stop_strategy = FIRST_EXHAUSTED
            /\ Len(c.datasets_with_multiplier) = 2
            /\ \A i \in 1..2 : c.datasets_with_multiplier[i].multiplier = 1},
     num_samples : {None, 1},
     val_num_samples : {DefaultValNumSamples},
     max_steps : {0, 2},
     shuffle_seed : {DefaultShuffleSeed},
     stop_strategy : {LAST_EXHAUSTED, NEVER_STOP},
     val_sets : {<<"b">>},
     do_train : BOOLEAN,
     do_eval : BOOLEAN]

InitRun ==
    /\ dsLen \in [Names -> {1, MaxLen}]
    /\ args \in RunArgs
    /\ InitPipeVars
    /\ InitConfigIdle
    /\ topo \in Topologies
    /\ pc = [p \in Procs(topo) |-> "train"]
    /\ err = [p \in Procs(topo) |-> "none"]
    /\ train_dataset = [p \in Procs(topo) |-> NoDataset]
    /\ val_datasets = [p \in Procs(topo) |-> <<>>]
    /\ trainer = [p \in Procs(topo) |-> NoDataset]
    /\ consumed = [p \in Procs(topo) |-> <<>>]
    /\ saved = [p \in Procs(topo) |-> FALSE]

\* train, lines 225-242: every rank prepares the training dataset
PrepareTrainSet(p) ==
    /\ pc[p] = "train"
    /\ LET res == PrepareTrainDataset(args)
       IN  IF res.status = "ok"
           THEN /\ train_dataset' = [train_dataset EXCEPT ![p] = res.ds]
                /\ pc' = [pc EXCEPT ![p] = "datasets"]
                /\ err' = err
           ELSE /\ err' = [err EXCEPT ![p] = res.status]
                /\ pc' = [pc EXCEPT ![p] = "error"]
                /\ train_dataset' = train_dataset
    /\ UNCHANGED <<cfgVars, dsLen, args, pipeVars, topo, val_datasets, trainer, consumed, saved>>

\* train, lines 243-275: the master prepares the validation datasets, every other
\* rank replaces its datasets by stand-ins
PrepareValOrStandIn(p) ==
    /\ pc[p] = "datasets"
    /\ LET res == [k \in ValKeys(args) |-> PrepareValDataset(args, k)]
           ok == \A k \in ValKeys(args) : res[k].status = "ok"
       IN  IF IsMaster(p)
           THEN /\ val_datasets' = [val_datasets EXCEPT ![p] =
                        IF ok THEN [k \in ValKeys(args) |-> res[k].ds] ELSE @]
                /\ pc' = [pc EXCEPT ![p] = IF ok THEN "trainer" ELSE "error"]
                /\ err' = [err EXCEPT ![p] = IF ok THEN @ ELSE "AssertionError"]
                /\ train_dataset' = train_dataset
           ELSE /\ train_dataset' = [train_dataset EXCEPT ![p] = StandInTrain(@)]
                /\ val_datasets' = [val_datasets EXCEPT ![p] = StandInVal(args)]
                /\ pc' = [pc EXCEPT ![p] = "trainer"]
                /\ err' = err
    /\ UNCHANGED <<cfgVars, dsLen, args, pipeVars, topo, trainer, consumed, saved>>

\* train, lines 284-325: the trainer is handed the datasets
MakeTrainer(p) ==
    /\ pc[p] = "trainer"
    /\ trainer' = [trainer EXCEPT ![p] =
                     [kind |-> "Trainer", train_dataset |-> train_dataset[p],
                      eval_dataset |-> val_datasets[p]]]
    /\ pc' = [pc EXCEPT ![p] = "fit"]
    /\ UNCHANGED <<cfgVars, dsLen, args, pipeVars, topo, err, train_dataset, val_datasets,
                   consumed, saved>>

\* train, lines 327-337: trainer.train() iterates the dataset it was handed
Fit(p) ==
    /\ pc[p] = "fit"
    /\ consumed' = [consumed EXCEPT ![p] =
                      IF args.do_train THEN Take(trainer[p].train_dataset, MaxPulls)
                      ELSE @]
    /\ pc' = [pc EXCEPT ![p] = "save"]
    /\ UNCHANGED <<cfgVars, dsLen, args, pipeVars, topo, err, train_dataset, val_datasets,
                   trainer, saved>>

\* train, lines 339-344: the master saves the model, and train returns
Save(p) ==
    /\ pc[p] = "save"
    /\ saved' = [saved EXCEPT ![p] = IsMaster(p)]
    /\ pc' = [pc EXCEPT ![p] = "returned"]
    /\ UNCHANGED <<cfgVars, dsLen, args, pipeVars, topo, err, train_dataset, val_datasets,
                   trainer, consumed>>

\* main, lines 113-116: evaluate is called, or main returns
AfterTrain(p) ==
    /\ pc[p] = "returned"
    /\ pc' = [pc EXCEPT ![p] = IF EvaluateAfterTrain(args, p) THEN "evaluate" ELSE "exit"]
    /\ UNCHANGED <<cfgVars, dsLen, args, pipeVars, topo, err, train_dataset, val_datasets,
                   trainer, consumed, saved>>

\* evaluate, lines 347-389, returns
Evaluate(p) ==
    /\ pc[p] = "evaluate"
    /\ pc' = [pc EXCEPT ![p] = "exit"]
    /\ UNCHANGED <<cfgVars, dsLen, args, pipeVars, topo, err, train_dataset, val_datasets,
                   trainer, consumed, saved>>

RunNext ==
    \/ \E p \in Procs(topo) : PrepareTrainSet(p)
    \/ \E p \in Procs(topo) : PrepareValOrStandIn(p)
    \/ \E p \in Procs(topo) : MakeTrainer(p)
    \/ \E p \in Procs(topo) : Fit(p)
    \/ \E p \in Procs(topo) : Save(p)
    \/ \E p \in Procs(topo) : AfterTrain(p)
    \/ \E p \in Procs(topo) : Evaluate(p)

RunSpec == InitRun /\ [][RunNext]_vars

\* ---- two constructions of the pipeline from one configuration ------------

ReproArgs ==
    {a \in PipeArgs :
        a.interleave_datasets # Missing /\ a.num_samples = None /\ a.max_steps # 0}

ReproInit ==
    /\ dsLen \in [Names -> 1..MaxLen]
    /\ args \in ReproArgs
    /\ InitPipeVars
    /\ InitConfigIdle
    /\ InitRunIdle

ReproNext ==
    \/ \E r \in Runs : Prepare(r)
    \/ \E r \in Runs : StartIter(r)
    \/ \E r \in Runs : Pull(r)

ReproSpec == ReproInit /\ [][ReproNext]_vars

\* ---- properties of the pipeline ------------------------------------------

Run1 == "r1"

Ready(r) == ppc[r] = "ready"

Engine(r) == ds[r].dataset.dataset

Iterating(r) == Ready(r) /\ iterNo[r] > 0

\* the strategy the configuration asks prepare_dataset for
Requested(st) ==
    /\ args.interleave_datasets # Missing
    /\ IF args.interleave_datasets.kind = "list"
       THEN st = LAST_EXHAUSTED
       ELSE args.interleave_datasets.stop_strategy = st

AllExhausted(r) == \A i \in DOMAIN Engine(r).exhausted : Engine(r).exhausted[i]

SomeExhausted(r) == \E i \in DOMAIN Engine(r).exhausted : Engine(r).exhausted[i]

SourceLens(r) == [i \in 1..Len(Engine(r).datasets) |-> Engine(r).datasets[i].len]

LongestSource(r) ==
    CHOOSE m \in {SourceLens(r)[i] : i \in DOMAIN SourceLens(r)} :
        \A i \in DOMAIN SourceLens(r) : SourceLens(r)[i] <= m

SumOfLens(r) == SumTo(SourceLens(r), Len(SourceLens(r)))

\* some sample occurs twice in the sequence
Repeats(s) == \E j, k \in DOMAIN s : j < k /\ s[j] = s[k]

\* how many of the first k - 1 samples of s come from the source of s[k]
EarlierFromSameSource(s, k) ==
    Cardinality({j \in 1..(k - 1) : s[j].of.source = s[k].of.source})

\* C1: under LAST_EXHAUSTED the interleaved stream has terminated only if every
\* source has been exhausted at least once since the engine was constructed; it
\* terminates in the very step in which the last source is first found exhausted;
\* and the first stream that terminates has yielded at least as many samples as
\* the longest source holds.
C1_LastExhausted ==
    /\ [](Iterating(Run1) /\ Requested(LAST_EXHAUSTED) =>
            /\ it[Run1].innerDone => AllExhausted(Run1)
            /\ iterNo[Run1] = 1 /\ AllExhausted(Run1) => it[Run1].innerDone
            /\ iterNo[Run1] = 1 /\ it[Run1].innerDone =>
                    Len(innerOut[Run1]) >= LongestSource(Run1))
    /\ [][Iterating(Run1) /\ Requested(LAST_EXHAUSTED)
            /\ ~AllExhausted(Run1) /\ AllExhausted(Run1)'
          => it'[Run1].innerDone /\ innerOut'[Run1] = innerOut[Run1]]_vars

\* C1's case: two sources of different lengths, the short one restarted, the
\* stream terminated in the first iteration
C1_Witness ==
    /\ Iterating(Run1) /\ Requested(LAST_EXHAUSTED)
    /\ iterNo[Run1] = 1
    /\ it[Run1].innerDone
    /\ Len(Engine(Run1).datasets) = 2
    /\ SourceLens(Run1)[1] # SourceLens(Run1)[2]
    /\ Repeats(innerOut[Run1])

\* C2: under FIRST_EXHAUSTED no sample is ever yielded twice (no source is
\* restarted), the stream is terminated in every state of the first iteration in
\* which a source has been found exhausted, the step that finds a source
\* exhausted yields nothing, and at most sum(lengths) samples are yielded.
C2_FirstExhausted ==
    /\ [](Iterating(Run1) /\ Requested(FIRST_EXHAUSTED) =>
            /\ ~Repeats(innerOut[Run1])
            /\ iterNo[Run1] = 1 /\ SomeExhausted(Run1) => it[Run1].innerDone
            /\ it[Run1].innerDone => SomeExhausted(Run1)
            /\ Len(innerOut[Run1]) <= SumOfLens(Run1))
    /\ [][Iterating(Run1) /\ Requested(FIRST_EXHAUSTED)
            /\ Engine(Run1).exhausted # Engine(Run1).exhausted'
          => it'[Run1].innerDone /\ innerOut'[Run1] = innerOut[Run1]]_vars

\* C2's case: two sources, the stream ended on the first exhaustion while the
\* other source still had samples left
C2_Witness ==
    /\ Iterating(Run1) /\ Requested(FIRST_EXHAUSTED)
    /\ it[Run1].innerDone
    /\ Len(Engine(Run1).datasets) = 2
    /\ Len(innerOut[Run1]) > 0
    /\ Len(innerOut[Run1]) < SumOfLens(Run1)

\* C3: under NEVER_STOP the interleaved stream never terminates, every request
\* that reaches it yields a sample, and the k-th sample drawn from a source is
\* its sample number (k - 1) mod length: an exhausted source restarts from its
\* beginning.
C3_NeverStop ==
    /\ [](Iterating(Run1) /\ Requested(NEVER_STOP) =>
            /\ ~it[Run1].innerDone
            /\ args.num_samples = None => ~it[Run1].rangeDone
            /\ \A k \in DOMAIN innerOut[Run1] :
                 innerOut[Run1][k].of.idx =
                    EarlierFromSameSource(innerOut[Run1], k)
                        % SourceLens(Run1)[innerOut[Run1][k].of.source])
    /\ [][Iterating(Run1) /\ Requested(NEVER_STOP)
            /\ pulls'[Run1] = pulls[Run1] + 1 /\ ~it'[Run1].rangeDone
          => Len(innerOut'[Run1]) = Len(innerOut[Run1]) + 1]_vars

\* C3's case: more samples pulled than all sources hold, a sample of the shorter
\* source seen again
C3_Witness ==
    /\ Iterating(Run1) /\ Requested(NEVER_STOP)
    /\ Len(Engine(Run1).datasets) = 2
    /\ Len(innerOut[Run1]) > SumOfLens(Run1)
    /\ Repeats(innerOut[Run1])

\* C4: when an iteration of the Range has ended, it has yielded min(K, L) samples
\* if the inner stream ended after L samples, and K samples if the inner stream
\* had not ended (always so under NEVER_STOP); it never yields more than K; and
\* what it yields is what the inner stream yielded, in order (all of it when
\* there is no cap).
C4_RangeLimiter ==
    Iterating(Run1) =>
        /\ out[Run1] = innerOut[Run1]
        /\ args.num_samples # None => Len(out[Run1]) <= args.num_samples
        /\ it[Run1].rangeDone =>
            IF args.num_samples = None
            THEN it[Run1].innerDone
            ELSE IF it[Run1].innerDone
                 THEN Len(out[Run1]) = Min(args.num_samples, Len(innerOut[Run1]))
                 ELSE Len(out[Run1]) = args.num_samples
        /\ it[Run1].rangeDone /\ Requested(NEVER_STOP) =>
            args.num_samples # None /\ Len(out[Run1]) = args.num_samples

\* C4's case: a second iteration of a capped Range over a never-ending interleave
\* has ended after exactly K > 0 samples
C4_Witness ==
    /\ Iterating(Run1) /\ Requested(NEVER_STOP)
    /\ iterNo[Run1] = 2
    /\ it[Run1].rangeDone
    /\ args.num_samples > 0
    /\ Len(out[Run1]) = args.num_samples

\* ---- properties of the launch --------------------------------------------

\* the names of the sources the configuration interleaves for training
ConfiguredNames ==
    IF args.interleave_datasets.kind = "list"
    THEN {args.interleave_datasets.names[i] :
            i \in 1..Len(args.interleave_datasets.names)}
    ELSE {args.interleave_datasets.datasets_with_multiplier[i].dataset :
            i \in 1..Len(args.interleave_datasets.datasets_with_multiplier)}

RECURSIVE SumOver(_)
SumOver(S) == IF S = {} THEN 0 ELSE LET x == CHOOSE x \in S : TRUE
                                    IN  dsLen[x] + SumOver(S \ {x})

\* the length of the training dataset of this configuration
ConfiguredTrainLen ==
    IF args.num_samples = None THEN SumOver(ConfiguredNames)
    ELSE Min(args.num_samples, SumOver(ConfiguredNames))

PastStandIn(p) == pc[p] \in {"trainer", "fit", "save", "returned", "evaluate", "exit"}

\* C5: the interleave of the training stream is constructed with
\* TrainConfig.stop_strategy.
C5_ConfiguredStopStrategy ==
    \A p \in Procs(topo) :
        train_dataset[p].kind = "Range" =>
            train_dataset[p].dataset.dataset.stop_strategy = args.stop_strategy

\* C6: on a non-master rank, once the stand-ins are in place, the training
\* dataset (and the one the trainer is handed) is an EmptyDataset whose iteration
\* yields nothing, whose length is the length of the training dataset of the
\* configuration and the length any master's training dataset reports, and every
\* validation dataset is an EmptyDataset of length zero.
C6_StandIn ==
    \A p \in Procs(topo) :
        ~IsMaster(p) /\ PastStandIn(p) =>
            /\ train_dataset[p].kind = "Empty"
            /\ Take(train_dataset[p], MaxPulls) = <<>>
            /\ consumed[p] = <<>>
            /\ trainer[p] # NoDataset =>
                    /\ trainer[p].train_dataset = train_dataset[p]
                    /\ trainer[p].eval_dataset = val_datasets[p]
            /\ DatasetLen(train_dataset[p]) = ConfiguredTrainLen
            /\ \A q \in Procs(topo) :
                    IsMaster(q) /\ train_dataset[q] # NoDataset =>
                        DatasetLen(train_dataset[q]) = DatasetLen(train_dataset[p])
            /\ DOMAIN val_datasets[p] = ValKeys(args)
            /\ \A k \in ValKeys(args) :
                    /\ val_datasets[p][k].kind = "Empty"
                    /\ DatasetLen(val_datasets[p][k]) = 0

\* C6's case: a non-master rank has trained on its stand-in, of length above one,
\* while the master of its node drew samples
C6_Witness ==
    \E p, q \in Procs(topo) :
        /\ ~IsMaster(p) /\ pc[p] = "save" /\ args.do_train
        /\ DatasetLen(train_dataset[p]) > 1
        /\ IsMaster(q) /\ consumed[q] # <<>>

HandedRealData(p) ==
    /\ trainer[p] # NoDataset
    /\ trainer[p].train_dataset.kind # "Empty"

\* C7: at every point of a run at most one process has been handed real
\* (non-stand-in) datasets.
C7_OneCoordinator == Cardinality({p \in Procs(topo) : HandedRealData(p)}) <= 1

ShortTrainSource == \E x \in ConfiguredNames : dsLen[x] <= 1

\* C8: a process ends with an AssertionError only in preparing the training
\* dataset, with max_steps = 0 and a source of length at most 1, and then none of
\* the stages has been built; with max_steps = 0 and such a source the
\* preparation of the training dataset always ends so; and the master's
\* validation datasets are built whatever their lengths.
C8_EpochLengthCheck ==
    \A p \in Procs(topo) :
        /\ err[p] = "AssertionError" =>
                /\ args.max_steps = 0
                /\ ShortTrainSource
                /\ train_dataset[p] = NoDataset
                /\ val_datasets[p] = <<>>
        /\ pc[p] # "train" /\ args.interleave_datasets # Missing
                /\ args.max_steps = 0 /\ ShortTrainSource
            => err[p] = "AssertionError"
        /\ IsMaster(p) /\ PastStandIn(p) =>
                \A k \in ValKeys(args) : val_datasets[p][k].kind = "Range"

\* C8's case: the training dataset's preparation failed on a rank
C8_Witness ==
    \E p \in Procs(topo) :
        /\ err[p] = "AssertionError"
        /\ pc[p] = "error"
        /\ \E x \in ConfiguredNames : dsLen[x] > 1

AllProcs == (1..MaxWorld) \X (0..(MaxWorld - 1))

\* the configurations the start of train() is explored with: model_load_dir is
\* unset, a local path, or a W&B artifact
DdpArgs == [model_load_dir : {"none", "local", "wandb"}]

\* train, lines 124-125: the process group exists when WORLD_SIZE > 1
DistInitialized == WorldSize(topo) > 1

\* train, lines 185-188: the W&B download is made
DownloadsFromWandb(a) == a.model_load_dir = "wandb"

\* a faulty variant: every rank is told it is the master
RunsFirstEveryRank(p) == TRUE

\* train, lines 154 and 190: the argument of run_on_master_first
RunsFirst(p) == IsMaster(p)

\* positions of a step s ("model" or "load"): waiting to enter, in the body,
\* waiting after the body
AtWait(s) == IF s = "model" THEN "model_wait" ELSE "load_wait"

AtBody(s) == IF s = "model" THEN "model_body" ELSE "load_body"

AtBarrier(s) == IF s = "model" THEN "model_barrier" ELSE "load_barrier"

AtEntry(s) == IF s = "model" THEN "start" ELSE "after_model"

AfterStep(s) == IF s = "model" THEN "after_model" ELSE "train"

\* the positions that come before a step's barrier is entered by a rank going first
BeforeBarrierFirst(s) ==
    IF s = "model" THEN {"start", "model_body"}
    ELSE {"start", "model_wait", "model_body", "model_barrier", "after_model", "load_body"}

\* the positions that come before the barrier is entered by a rank going second
BeforeBarrierSecond(s) ==
    IF s = "model" THEN {"start"}
    ELSE {"start", "model_wait", "model_body", "model_barrier", "after_model"}

\* run_on_master_first: process q has entered the barrier of step s
EnteredBarrier(q, s) ==
    IF RunsFirst(q) THEN pc[q] \notin BeforeBarrierFirst(s)
    ELSE pc[q] \notin BeforeBarrierSecond(s)

\* torch.distributed.barrier() returns once every process of the group entered it
BarrierOpen(s) == \A q \in Procs(topo) : EnteredBarrier(q, s)

InitDdp ==
    /\ dsLen = [n \in Names |-> 1]
    /\ args \in DdpArgs
    /\ InitPipeVars
    /\ InitConfigIdle
    /\ topo \in Topologies
    /\ pc = [p \in Procs(topo) |-> "start"]
    /\ err = [p \in Procs(topo) |-> "none"]
    /\ train_dataset = [p \in Procs(topo) |-> NoDataset]
    /\ val_datasets = [p \in Procs(topo) |-> <<>>]
    /\ trainer = [p \in Procs(topo) |-> NoDataset]
    /\ consumed = [p \in Procs(topo) |-> <<>>]
    /\ saved = [p \in Procs(topo) |-> FALSE]

DdpUnchanged ==
    UNCHANGED <<cfgVars, dsLen, args, pipeVars, topo, err, train_dataset, val_datasets,
                trainer, consumed, saved>>

\* whether step s is run at all: line 155 always, line 191 for a W&B artifact
StepIsRun(s) == s = "model" \/ DownloadsFromWandb(args)

\* entering `with run_on_master_first(is_master)`: the master goes into the body,
\* every other rank into the barrier (when the process group exists)
EnterStep(p, s) ==
    /\ pc[p] = AtEntry(s)
    /\ pc' = [pc EXCEPT ![p] =
                IF ~StepIsRun(s) THEN AfterStep(s)
                ELSE IF RunsFirst(p) \/ ~DistInitialized THEN AtBody(s)
                ELSE AtWait(s)]
    /\ DdpUnchanged

\* a rank that is not the master leaves the barrier and goes into the body
LeaveWait(p, s) ==
    /\ pc[p] = AtWait(s)
    /\ BarrierOpen(s)
    /\ pc' = [pc EXCEPT ![p] = AtBody(s)]
    /\ DdpUnchanged

\* the body returns (UltravoxModel(config), download_model_from_wandb): the master
\* goes into the barrier, every other rank leaves the with block
FinishBody(p, s) ==
    /\ pc[p] = AtBody(s)
    /\ pc' = [pc EXCEPT ![p] =
                IF RunsFirst(p) /\ DistInitialized THEN AtBarrier(s) ELSE AfterStep(s)]
    /\ DdpUnchanged

\* the master leaves the barrier and the with block
LeaveBarrier(p, s) ==
    /\ pc[p] = AtBarrier(s)
    /\ BarrierOpen(s)
    /\ pc' = [pc EXCEPT ![p] = AfterStep(s)]
    /\ DdpUnchanged

DdpSteps == {"model", "load"}

DdpStep(p) ==
    /\ p \in Procs(topo)
    /\ \E s \in DdpSteps :
        EnterStep(p, s) \/ LeaveWait(p, s) \/ FinishBody(p, s) \/ LeaveBarrier(p, s)

DdpNext ==
    \/ \E p \in Procs(topo), s \in DdpSteps : EnterStep(p, s)
    \/ \E p \in Procs(topo), s \in DdpSteps : LeaveWait(p, s)
    \/ \E p \in Procs(topo), s \in DdpSteps : FinishBody(p, s)
    \/ \E p \in Procs(topo), s \in DdpSteps : LeaveBarrier(p, s)

\* every process keeps running: a process that can take a step takes one
DdpSpec ==
    InitDdp /\ [][DdpNext]_vars /\ \A p \in AllProcs : WF_vars(DdpStep(p))

\* ---- properties of the steps run on the master first -----------------------

\* process p has started the body of step s
StartedBody(p, s) ==
    IF s = "model" THEN pc[p] \notin {"start", "model_wait"}
    ELSE DownloadsFromWandb(args) /\ pc[p] \in {"load_body", "load_barrier", "train"}

\* process p has finished the body of step s
FinishedBody(p, s) ==
    IF s = "model" THEN pc[p] \notin {"start", "model_wait", "model_body"}
    ELSE DownloadsFromWandb(args) /\ pc[p] \in {"load_barrier", "train"}

DataTypes == {"bfloat16", "float16", "float32"}

\* config_base.py line 103
DataTypeAccepted(self) == self.data_type \in DataTypes

\* config_base.py lines 104-105
PostInitDevice(self, t) ==
    IF self.device = "cuda" /\ ~t.cuda
    THEN IF t.mps THEN "mps" ELSE "cpu"
    ELSE self.device

\* a faulty variant: bfloat16 is kept on every device
PostInitDataTypeKept(device, data_type) == data_type

\* config_base.py lines 106-108
PostInitDataType(device, data_type) ==
    IF device # "cuda" /\ data_type = "bfloat16" THEN "float32" ELSE data_type

\* config_base.py lines 106 and 109-113
PostInitOptimizer(device, optimizer) ==
    IF device # "cuda" /\ optimizer = "adamw_bnb_8bit" THEN "adamw_torch" ELSE optimizer

\* config_base.py lines 103-113: the object after __post_init__, or the assertion
post_init(self, t) ==
    IF ~DataTypeAccepted(self)
    THEN [status |-> "AssertionError", self |-> self]
    ELSE LET device == PostInitDevice(self, t)
         IN  [status |-> "constructed",
              self |-> [self EXCEPT !.device = device,
                                    !.data_type = PostInitDataType(device, @),
                                    !.optimizer = PostInitOptimizer(device, @)]]

\* the constructor arguments the configuration is explored with
CtorArgs ==
    [device : {"cuda", "cpu", "mps"},
     data_type : DataTypes \cup {"float64"},
     optimizer : {"adamw_torch", "adamw_bnb_8bit"}]

InitConfig ==
    /\ dsLen = [n \in Names |-> 1]
    /\ ctor \in CtorArgs
    /\ args = ctor
    /\ torch \in [cuda : BOOLEAN, mps : BOOLEAN]
    /\ cpc = "post_init"
    /\ InitPipeVars
    /\ InitRunIdle

\* the dataclass's __init__ has assigned the fields and calls __post_init__
PostInit ==
    /\ cpc = "post_init"
    /\ LET res == post_init(args, torch)
       IN  /\ args' = res.self
           /\ cpc' = res.status
    /\ UNCHANGED <<dsLen, torch, ctor, pipeVars, runVars>>

ConfigNext == PostInit

ConfigSpec == InitConfig /\ [][ConfigNext]_vars

\* C12: a constructed TrainConfig has a data_type among bfloat16, float16 and
\* float32, has device cuda only when CUDA is available, and off cuda has neither
\* bfloat16 nor adamw_bnb_8bit; a construction with another data_type has ended
\* with an AssertionError (and only such a construction does); and a float16 or
\* float32 data_type is the data_type of the constructed object.
C12_PostInit ==
    /\ cpc = "constructed" =>
            /\ args.data_type \in DataTypes
            /\ args.device = "cuda" => torch.cuda
            /\ args.device # "cuda" =>
                    args.data_type # "bfloat16" /\ args.optimizer # "adamw_bnb_8bit"
            /\ ctor.data_type \in {"float16", "float32"} =>
                    args.data_type = ctor.data_type
    /\ cpc # "post_init" =>
            (cpc = "AssertionError" <=> ctor.data_type \notin DataTypes)
    /\ cpc = "AssertionError" => args = ctor

\* C12's case: cuda was asked for without CUDA, with bfloat16 and adamw_bnb_8bit,
\* and the object was constructed on mps with both coerced
C12_Witness ==
    /\ cpc = "constructed"
    /\ ctor.device = "cuda" /\ ~torch.cuda /\ torch.mps
    /\ ctor.data_type = "bfloat16" /\ ctor.optimizer = "adamw_bnb_8bit"
    /\ args.device = "mps"
    /\ args.data_type = "float32"
    /\ args.optimizer = "adamw_torch"

====
